---- MODULE Spec2Model ----
(***************************************************************************)
(* Supervisory layer of the micro-inverter firmware: the operating-mode    *)
(* state machine (loop_application_task), the 100 us control loop          *)
(* (loop_critical_task) and the command gateway (app_apply_command).       *)
(*                                                                         *)
(* Numbers are fixed point:                                                *)
(*   duty cycles          1 unit = 1e-4           (0.5 is 5000)            *)
(*   currents             1 unit = 0.25 A         (8.0 A is 32)            *)
(*   voltages             1 unit = 1 V                                     *)
(*   dq references        1 unit = 0.1            (8.0 is 80)              *)
(*   angular frequency    1 unit = w0 / 10000     (w0 is 10000)            *)
(* With Ts = 1e-4 s the product Ts * rate of rate_limiter is `rate` duty   *)
(* units per tick.                                                         *)
(***************************************************************************)
EXTENDS Integers, FiniteSets, Sequences, TLC

VARIABLES
    mode,                 \* main.cpp:207
    mode_asked,           \* main.cpp:208
    inverter_on,          \* main.cpp:139
    local_mode,           \* main.cpp:127
    pwm_enable,           \* main.cpp:67
    boost_pwm_enable,     \* main.cpp:138
    is_net_synchronized,  \* main.cpp:124
    sync_counter,         \* main.cpp:193
    desync_counter,       \* main.cpp:194
    power_counter,        \* main.cpp:195
    delta_duty_cycle,     \* main.cpp:130
    duty_cycle_offset,    \* main.cpp:133
    duty_cycle_1,         \* main.cpp:131
    duty_cycle_2,         \* main.cpp:132
    Ilow1_value,          \* main.cpp:72
    Ilow2_value,          \* main.cpp:73
    Vlow_value,           \* main.cpp:70
    Vac_value,            \* main.cpp:71
    Vdc_bus,              \* main.cpp:74
    Vdc_bus_filt,         \* main.cpp:76
    Vgrid_meas,           \* main.cpp:83
    VN_meas,              \* main.cpp:84
    user_cmd,             \* user_data_objects.h:16
    Vdq_ref,              \* main.cpp:94
    Idq_ref,              \* main.cpp:100
    is_downloading,       \* main.cpp:203
    trigger,              \* main.cpp:204
    cb_pending,           \* a protocol write whose post-write callback has not run yet
    acq_run,              \* history: in-band lock-acquire ticks in a row since sync_counter was 0
    loss_run,             \* history: out-of-band Power-regulation ticks in a row
    Iac_value,            \* main.cpp:75
    dumping,              \* loop_application_task is inside dump_scope_datas (main.cpp:365)
    starts,               \* history: start(ALL) calls since the inverter legs were last stopped
    wait_run,             \* history: Power-regulation ticks with stopped legs since the legs last ran
    rl,                   \* a caller iterating rate_limiter: target, rate, first and current value, calls
    hist,                 \* history: who set is_net_synchronized, trips, capture downloads owed
    app_case,             \* the case loop_application_task's switch (main.cpp:314) has selected
    band,                 \* a caller of the two in-band tests: omega and what each test said
    last                  \* history: the handler that ran last, its inputs and its calls

vars == << mode, mode_asked, inverter_on, local_mode, pwm_enable, boost_pwm_enable,
           is_net_synchronized, sync_counter, desync_counter, power_counter,
           delta_duty_cycle, duty_cycle_offset, duty_cycle_1, duty_cycle_2,
           Ilow1_value, Ilow2_value, Vlow_value, Vac_value, Vdc_bus, Vdc_bus_filt,
           Vgrid_meas, VN_meas, user_cmd, Vdq_ref, Idq_ref, is_downloading, trigger,
           cb_pending, acq_run, loss_run, Iac_value, dumping, starts, wait_run, rl,
           hist, app_case, band, last >>

(***************************************************************************)
(* Program constants                                                       *)
(***************************************************************************)
IDLEMODE == 0
POWERMODE == 1
ERRORMODE == 3
STARTUPMODE == 4

FORMING == "FORMING"
FOLLOWING == "FOLLOWING"

NO_VALUE == -10000
MAX_CURRENT == 32
I1_current_offset == 1
I2_current_offset == 1
UDC_STARTUP == 0
VGRID_STARTUP == 10
W0 == 10000
sync_power_tolerance == 100
SYNC_TICKS == 2000
DESYNC_TICKS == 200
POWER_TICKS == 2000
HALF_DUTY == 5000
FORMING_DONE == 4900
RAMP_DELTA == 50
RAMP_OFFSET == 1
SIGN_TOL == 10
DUTY_UNIT == 10000
IDQ_REF_MAX_D == 80
IDQ_REF_MAX_Q == 10
IDQ_REF_MIN_D == -1
IDQ_REF_MIN_Q == -1
VDQ_REF_MAX_D == 300
VDQ_REF_MAX_Q == 300
VDQ_REF_MIN_D == -1
VDQ_REF_MIN_Q == -1

Idq_ref_max == [d |-> IDQ_REF_MAX_D, q |-> IDQ_REF_MAX_Q]
Idq_ref_min == [d |-> IDQ_REF_MIN_D, q |-> IDQ_REF_MIN_Q]
Vdq_ref_max == [d |-> VDQ_REF_MAX_D, q |-> VDQ_REF_MAX_Q]
Vdq_ref_min == [d |-> VDQ_REF_MIN_D, q |-> VDQ_REF_MIN_Q]

(***************************************************************************)
(* auxiliary.cpp: the numeric primitives                                   *)
(***************************************************************************)
saturate(x, min, max) ==
    IF x > max THEN max
    ELSE IF x < min THEN min
    ELSE x

sign(x, tol) ==
    IF x > tol THEN 1
    ELSE IF x < -tol THEN -1
    ELSE 0

rate_limiter(ref, value, rate) == value + rate * sign(ref - value, SIGN_TOL)

(***************************************************************************)
(* loop_critical_task: the pieces of one tick                              *)
(***************************************************************************)
SampleNoHold(meas, old, offset) == meas - offset

\* A channel keeps its previous value when the sensor has no fresh sample.
Sample(meas, old, offset) == IF meas # NO_VALUE THEN meas - offset ELSE old

OverCurrentLow1Only(i1, i2) == i1 > MAX_CURRENT \/ i1 < -MAX_CURRENT

OverCurrent(i1, i2) ==
    \/ i1 > MAX_CURRENT
    \/ i1 < -MAX_CURRENT
    \/ i2 > MAX_CURRENT
    \/ i2 < -MAX_CURRENT

\* The lock-acquire test of the startup branch (strict comparisons).
InBandStartup(om) ==
    om < W0 + sync_power_tolerance /\ om > W0 - sync_power_tolerance

\* The synchronization test of the power branch (inclusive comparisons).
InBandPower(om) ==
    om <= W0 + sync_power_tolerance /\ om >= W0 - sync_power_tolerance

SyncReached(c) == c > SYNC_TICKS

DesyncReached(c) == c > DESYNC_TICKS

PowerDelayOver(c) == c > POWER_TICKS

StopInvertersWhileHalted(m, enabled) == m = IDLEMODE \/ m = ERRORMODE

\* 439-447: stop(ALL) is due in Idle or Error while the inverter legs run.
StopInverters(m, enabled) == (m = IDLEMODE \/ m = ERRORMODE) /\ enabled

\* 439, 448-453: the boost legs' own stop is due in Idle or Error while they run.
StopBoost(m, enabled) == (m = IDLEMODE \/ m = ERRORMODE) /\ enabled

StopHighLegsNever(on, enabled) == FALSE

\* 475-482: stop(LEG1_HIGH), stop(LEG2_HIGH) when the inverter is not enabled.
StopHighLegs(on, enabled) == ~on /\ enabled

AskedAfterTickCleared(trip, asked) == IDLEMODE

\* 540-543: the desynchronization trip withdraws the mode request.
AskedAfterTick(trip, asked) == IF trip THEN IDLEMODE ELSE asked

LegsStoppedAssumed(enabled) == TRUE

\* 499 and 579: the inverter legs are started only while they are stopped.
LegsStopped(enabled) == ~enabled

NoCalls == [stopAll |-> FALSE, stopLow |-> FALSE, stopHigh |-> FALSE,
            startLow |-> FALSE, startAll |-> FALSE,
            dutyLow |-> FALSE, dutyHigh |-> FALSE]

\* user_data_objects.h:16-23: the command mailbox as initialised.
NoCmd == [mode_request |-> 0, inverter_on |-> FALSE, vd_ref |-> 0,
          id_ref |-> 0, scope_dump |-> FALSE, scope_trigger |-> FALSE]

NoMeas == [ilow1 |-> 0, vlow |-> 0, vac |-> 0, ilow2 |-> 0, vdc |-> 0, iac |-> 0]

\* For the log: the value a channel had before a tick that brought no fresh
\* sample for it (0 for a channel with a fresh sample).
Held(meas, old) == IF meas = NO_VALUE THEN old ELSE 0

\* History kept across handlers: which regulation last set
\* is_net_synchronized ("acquire": the debounce of 511-522, "power": the
\* evaluation of 533-534, "none": cleared or never set), whether a
\* desynchronization trip has happened with no protocol write changing
\* mode_request since, and whether a capture download was requested and no
\* stream has begun since.
NoHist == [sync_src |-> "none", tripped |-> FALSE, unserved |-> FALSE]

\* loop_application_task is not inside its switch.
NoCase == -1

\* What the handlers record about themselves for the properties below.
NoLog == [ctx |-> "init", calls |-> NoCalls, over |-> FALSE, trip |-> FALSE,
          run0 |-> FALSE, pwm0 |-> FALSE, boost0 |-> FALSE, mode0 |-> IDLEMODE, asked0 |-> IDLEMODE,
          inband |-> FALSE, reg |-> "none", sync0 |-> FALSE,
          handed |-> [d |-> 0, q |-> 0], written |-> 0,
          scopeStart |-> FALSE, on0 |-> FALSE, down0 |-> FALSE, trig0 |-> FALSE,
          cmd0 |-> NoCmd, meas |-> NoMeas, prev |-> NoMeas, waited |-> 0,
          delta0 |-> 0, offset0 |-> 0]

(***************************************************************************)
(* loop_critical_task (main.cpp:389-632), one whole tick.  in: the sensor  *)
(* readings (ilow1, vlow, vac, ilow2, vdc), the output of the bus-voltage  *)
(* low-pass filter (vfilt) and what the control-law collaborator returns   *)
(* this tick (om: angular frequency, dd: differential duty).               *)
(***************************************************************************)
loop_critical_task(in) ==
    LET \* 393-416: sampling and derived quantities
        I1 == Sample(in.ilow1, Ilow1_value, I1_current_offset)
        VL == Sample(in.vlow, Vlow_value, 0)
        VA == Sample(in.vac, Vac_value, 0)
        I2 == Sample(in.ilow2, Ilow2_value, I2_current_offset)
        VD == Sample(in.vdc, Vdc_bus, 0)
        IA == Sample(in.iac, Iac_value, 0)
        VF == in.vfilt
        VG == VL - VA
        VN == (VL + VA) \div 2
        \* 429-436: overcurrent protection
        over == OverCurrent(I1, I2)
        mode1 == IF over THEN ERRORMODE ELSE mode
        \* 439-454: idle or error, stop once
        stopAll == StopInverters(mode1, pwm_enable)
        pwm1 == IF stopAll THEN FALSE ELSE pwm_enable
        stopLow == StopBoost(mode1, boost_pwm_enable)
        boost1 == IF stopLow THEN FALSE ELSE boost_pwm_enable
        \* 456-472: boost stage
        boosting == mode1 = STARTUPMODE \/ mode1 = POWERMODE
        startLow == boosting /\ ~boost1
        boost2 == IF boosting THEN TRUE ELSE boost1
        \* 474-482: inverter legs stopped when not enabled
        stopHigh == StopHighLegs(inverter_on, pwm1)
        pwm2 == IF stopHigh THEN FALSE ELSE pwm1
        \* 486-525: startup ramp and lock acquisition
        startup == mode1 = STARTUPMODE /\ inverter_on
        ramping == startup /\ local_mode = FORMING
        acquiring == startup /\ local_mode # FORMING
        ramped == rate_limiter(HALF_DUTY, delta_duty_cycle, RAMP_DELTA)
        delta1 == IF ramping
                  THEN (IF ramped > HALF_DUTY THEN HALF_DUTY ELSE ramped)
                  ELSE delta_duty_cycle
        startAllS == ramping /\ LegsStopped(pwm2)
        pwm3 == IF ramping THEN TRUE ELSE pwm2
        inS == InBandStartup(in.om)
        cntS == sync_counter + 1
        sync1 == IF acquiring
                 THEN (IF inS THEN (IF SyncReached(cntS) THEN TRUE
                                    ELSE is_net_synchronized)
                       ELSE FALSE)
                 ELSE is_net_synchronized
        sc1 == IF acquiring
               THEN (IF inS /\ ~SyncReached(cntS) THEN cntS ELSE 0)
               ELSE sync_counter
        \* 528-593: closed-loop regulation
        power == mode1 = POWERMODE /\ inverter_on
        inP == InBandPower(in.om)
        cntD == desync_counter + 1
        trip == power /\ ~inP /\ DesyncReached(cntD)
        dc1 == IF power /\ ~inP THEN (IF DesyncReached(cntD) THEN 0 ELSE cntD)
               ELSE desync_counter
        off1 == IF ~power THEN duty_cycle_offset
                ELSE IF ~pwm3 THEN (VN * DUTY_UNIT) \div VF
                ELSE IF duty_cycle_offset < HALF_DUTY
                     THEN rate_limiter(HALF_DUTY, duty_cycle_offset, RAMP_OFFSET)
                     ELSE HALF_DUTY
        delta2 == IF power THEN in.dd ELSE delta1
        delaying == power /\ local_mode = FOLLOWING /\ LegsStopped(pwm3)
        cntP == power_counter + 1
        startAllP == delaying /\ PowerDelayOver(cntP)
        pwm4 == IF startAllP THEN TRUE ELSE pwm3
    IN  /\ Ilow1_value' = I1
        /\ Iac_value' = IA
        /\ Ilow2_value' = I2
        /\ Vlow_value' = VL
        /\ Vac_value' = VA
        /\ Vdc_bus' = VD
        /\ Vdc_bus_filt' = VF
        /\ Vgrid_meas' = VG
        /\ VN_meas' = VN
        /\ mode' = IF trip THEN IDLEMODE ELSE mode1
        /\ mode_asked' = AskedAfterTick(trip, mode_asked)
        /\ pwm_enable' = pwm4
        /\ boost_pwm_enable' = boost2
        /\ is_net_synchronized' = IF power THEN inP ELSE sync1
        /\ sync_counter' = IF trip THEN 0 ELSE sc1
        /\ desync_counter' = dc1
        /\ power_counter' = IF delaying THEN cntP ELSE power_counter
        /\ delta_duty_cycle' = delta2
        /\ duty_cycle_offset' = off1
        /\ duty_cycle_1' = IF power THEN delta2 + off1 ELSE duty_cycle_1
        /\ duty_cycle_2' = IF power THEN off1 - delta2 ELSE duty_cycle_2
        /\ last' = [NoLog EXCEPT
                      !.ctx = "tick",
                      !.calls = [stopAll |-> stopAll, stopLow |-> stopLow,
                                 stopHigh |-> stopHigh, startLow |-> startLow,
                                 startAll |-> startAllS \/ startAllP,
                                 dutyLow |-> boosting,
                                 dutyHigh |-> ramping \/ power],
                      !.over = over,
                      !.trip = trip,
                      !.run0 = pwm_enable /\ boost_pwm_enable,
                      !.pwm0 = pwm_enable,
                      !.boost0 = boost_pwm_enable,
                      !.mode0 = mode,
                      !.inband = IF power THEN inP ELSE inS,
                      !.reg = IF power THEN "power"
                              ELSE IF acquiring THEN "acquire"
                              ELSE IF ramping THEN "ramp" ELSE "none",
                      !.sync0 = is_net_synchronized,
                      !.asked0 = mode_asked,
                      !.on0 = inverter_on,
                      !.meas = [ilow1 |-> in.ilow1, vlow |-> in.vlow, vac |-> in.vac,
                                ilow2 |-> in.ilow2, vdc |-> in.vdc, iac |-> in.iac],
                      !.prev = [ilow1 |-> Held(in.ilow1, Ilow1_value),
                                vlow |-> Held(in.vlow, Vlow_value),
                                vac |-> Held(in.vac, Vac_value),
                                ilow2 |-> Held(in.ilow2, Ilow2_value),
                                vdc |-> Held(in.vdc, Vdc_bus),
                                iac |-> Held(in.iac, Iac_value)],
                      !.waited = IF startAllP THEN wait_run + 1 ELSE 0,
                      !.delta0 = delta_duty_cycle,
                      !.offset0 = duty_cycle_offset,
                      !.handed = IF ~power THEN NoLog.handed
                                 ELSE IF local_mode = FORMING THEN Vdq_ref
                                 ELSE Idq_ref]
        /\ acq_run' = IF ~acquiring THEN acq_run
                       ELSE IF ~inS THEN 0
                       ELSE IF sync_counter = 0 THEN 1 ELSE acq_run + 1
        /\ loss_run' = IF power /\ ~inP THEN loss_run + 1 ELSE 0
        /\ starts' = (IF stopAll \/ stopHigh THEN 0 ELSE starts)
                      + (IF startAllS \/ startAllP THEN 1 ELSE 0)
        /\ wait_run' = IF pwm4 THEN 0
                        ELSE IF delaying THEN wait_run + 1 ELSE wait_run
        /\ hist' = [hist EXCEPT
                      !.sync_src = IF power THEN (IF inP THEN "power" ELSE "none")
                                   ELSE IF ~acquiring THEN @
                                   ELSE IF ~inS THEN "none"
                                   ELSE IF SyncReached(cntS) THEN "acquire" ELSE @,
                      !.tripped = @ \/ trip]
        /\ UNCHANGED << inverter_on, local_mode, user_cmd, Vdq_ref, Idq_ref,
                        is_downloading, trigger, cb_pending, dumping, rl,
                        app_case, band >>

(***************************************************************************)
(* loop_application_task (main.cpp:309-380): the mode state machine        *)
(***************************************************************************)
\* As StateMachineCase, with the error case handled like the idle case.
StateMachineCaseErrorRestarts(m) ==
    IF m = IDLEMODE \/ m = ERRORMODE THEN
        (IF mode_asked = POWERMODE THEN POWERMODE ELSE m)
    ELSE IF m = STARTUPMODE THEN
        (IF \/ ~inverter_on
            \/ (local_mode = FORMING /\ delta_duty_cycle > FORMING_DONE)
            \/ (local_mode = FOLLOWING /\ is_net_synchronized)
         THEN POWERMODE ELSE m)
    ELSE IF m = POWERMODE THEN
        (IF /\ inverter_on
            /\ Vdc_bus_filt >= UDC_STARTUP
            /\ (local_mode = FORMING \/ Vgrid_meas >= VGRID_STARTUP)
         THEN STARTUPMODE
         ELSE IF mode_asked = IDLEMODE THEN IDLEMODE ELSE m)
    ELSE m

\* The switch on mode (314-356): the mode the selected case leaves.
StateMachineCase(m) ==
    IF m = IDLEMODE THEN
        (IF mode_asked = POWERMODE THEN POWERMODE ELSE m)
    ELSE IF m = STARTUPMODE THEN
        (IF \/ ~inverter_on
            \/ (local_mode = FORMING /\ delta_duty_cycle > FORMING_DONE)
            \/ (local_mode = FOLLOWING /\ is_net_synchronized)
         THEN POWERMODE ELSE m)
    ELSE IF m = POWERMODE THEN
        (IF /\ inverter_on
            /\ Vdc_bus_filt >= UDC_STARTUP
            /\ (local_mode = FORMING \/ Vgrid_meas >= VGRID_STARTUP)
         THEN STARTUPMODE
         ELSE IF mode_asked = IDLEMODE THEN IDLEMODE ELSE m)
    ELSE m

GlobalOverrideDropped(m) == m

\* 357-359: the global return to idle.
GlobalOverride(m) == IF mode_asked = IDLEMODE THEN IDLEMODE ELSE m

\* One whole low-rate tick, not preempted.
loop_application_task ==
    LET m1 == GlobalOverride(StateMachineCase(mode))
    IN  /\ ~dumping
        /\ mode' = m1
        /\ is_downloading' = IF m1 = IDLEMODE THEN FALSE ELSE is_downloading
        /\ hist' = [hist EXCEPT !.unserved = @ /\ ~(m1 = IDLEMODE /\ is_downloading)]
        /\ last' = [NoLog EXCEPT !.ctx = "app", !.mode0 = mode, !.asked0 = mode_asked,
                                 !.on0 = inverter_on, !.down0 = is_downloading]
        /\ UNCHANGED << mode_asked, inverter_on, local_mode, pwm_enable,
                        boost_pwm_enable, is_net_synchronized, sync_counter,
                        desync_counter, power_counter, delta_duty_cycle,
                        duty_cycle_offset, duty_cycle_1, duty_cycle_2, Ilow1_value,
                        Ilow2_value, Vlow_value, Vac_value, Vdc_bus, Vdc_bus_filt,
                        Vgrid_meas, VN_meas, user_cmd, Vdq_ref, Idq_ref, trigger,
                        cb_pending, dumping, acq_run, loss_run, Iac_value, starts,
                        wait_run, rl, app_case, band >>

\* The low-rate tick up to the call of dump_scope_datas at 365, which
\* suspends the task while it streams; the whole tick when no download is due.
loop_application_task_until_dump ==
    LET m1 == GlobalOverride(StateMachineCase(mode))
    IN  /\ ~dumping
        /\ mode' = m1
        /\ dumping' = (m1 = IDLEMODE /\ is_downloading)
        /\ hist' = [hist EXCEPT !.unserved = @ /\ ~(m1 = IDLEMODE /\ is_downloading)]
        /\ last' = [NoLog EXCEPT !.ctx = "app", !.mode0 = mode, !.asked0 = mode_asked,
                                 !.on0 = inverter_on, !.down0 = is_downloading]
        /\ UNCHANGED << mode_asked, inverter_on, local_mode, pwm_enable,
                        boost_pwm_enable, is_net_synchronized, sync_counter,
                        desync_counter, power_counter, delta_duty_cycle,
                        duty_cycle_offset, duty_cycle_1, duty_cycle_2, Ilow1_value,
                        Ilow2_value, Vlow_value, Vac_value, Vdc_bus, Vdc_bus_filt,
                        Vgrid_meas, VN_meas, user_cmd, Vdq_ref, Idq_ref, trigger,
                        is_downloading, cb_pending, acq_run, loss_run, Iac_value,
                        starts, wait_run, rl, app_case, band >>

\* 365-366: dump_scope_datas has returned and the download flag is cleared.
dump_scope_datas_returns ==
    /\ dumping
    /\ dumping' = FALSE
    /\ is_downloading' = FALSE
    /\ last' = [NoLog EXCEPT !.ctx = "dumped", !.down0 = is_downloading]
    /\ UNCHANGED << mode, mode_asked, inverter_on, local_mode, pwm_enable,
                    boost_pwm_enable, is_net_synchronized, sync_counter,
                    desync_counter, power_counter, delta_duty_cycle,
                    duty_cycle_offset, duty_cycle_1, duty_cycle_2, Ilow1_value,
                    Ilow2_value, Vlow_value, Vac_value, Vdc_bus, Vdc_bus_filt,
                    Vgrid_meas, VN_meas, user_cmd, Vdq_ref, Idq_ref, trigger,
                    cb_pending, acq_run, loss_run, Iac_value, starts, wait_run, rl,
                    hist, app_case, band >>

\* 314: the switch reads mode and selects its case.  The control task
\* preempts the low-rate task (main.cpp:294-295), so ticks can run between
\* this read and the statements of the case.
loop_application_task_switch ==
    /\ ~dumping
    /\ app_case = NoCase
    /\ app_case' = mode
    /\ last' = [NoLog EXCEPT !.ctx = "switch", !.mode0 = mode]
    /\ UNCHANGED << mode, mode_asked, inverter_on, local_mode, pwm_enable,
                    boost_pwm_enable, is_net_synchronized, sync_counter,
                    desync_counter, power_counter, delta_duty_cycle,
                    duty_cycle_offset, duty_cycle_1, duty_cycle_2, Ilow1_value,
                    Ilow2_value, Vlow_value, Vac_value, Vdc_bus, Vdc_bus_filt,
                    Vgrid_meas, VN_meas, user_cmd, Vdq_ref, Idq_ref, trigger,
                    is_downloading, cb_pending, dumping, acq_run, loss_run,
                    Iac_value, starts, wait_run, rl, hist, band >>

\* 315-368: the statements of the selected case, the global return to idle
\* and the download, with the globals as they are now.  A case that assigns
\* nothing leaves mode as the ticks in between left it.
loop_application_task_case ==
    LET sel == StateMachineCase(app_case)
        m0 == IF sel = app_case THEN mode ELSE sel
        m1 == GlobalOverride(m0)
    IN  /\ app_case # NoCase
        /\ app_case' = NoCase
        /\ mode' = m1
        /\ is_downloading' = IF m1 = IDLEMODE THEN FALSE ELSE is_downloading
        /\ hist' = [hist EXCEPT !.unserved = @ /\ ~(m1 = IDLEMODE /\ is_downloading)]
        /\ last' = [NoLog EXCEPT !.ctx = "app", !.mode0 = mode, !.asked0 = mode_asked,
                                 !.on0 = inverter_on, !.down0 = is_downloading]
        /\ UNCHANGED << mode_asked, inverter_on, local_mode, pwm_enable,
                        boost_pwm_enable, is_net_synchronized, sync_counter,
                        desync_counter, power_counter, delta_duty_cycle,
                        duty_cycle_offset, duty_cycle_1, duty_cycle_2, Ilow1_value,
                        Ilow2_value, Vlow_value, Vac_value, Vdc_bus, Vdc_bus_filt,
                        Vgrid_meas, VN_meas, user_cmd, Vdq_ref, Idq_ref, trigger,
                        cb_pending, dumping, acq_run, loss_run, Iac_value, starts,
                        wait_run, rl, band >>

(***************************************************************************)
(* The protocol layer and app_apply_command (auxiliary.cpp:40-89)          *)
(***************************************************************************)
\* The protocol layer applies a batch of writes to the command group; its
\* post-write callback (thingset_callbacks.cpp:7-12) runs afterwards.
ProtocolWrite(w) ==
    /\ ~cb_pending
    /\ user_cmd' = w
    /\ cb_pending' = TRUE
    /\ hist' = [hist EXCEPT !.tripped = @ /\ w.mode_request = user_cmd.mode_request]
    /\ last' = [NoLog EXCEPT !.ctx = "write"]
    /\ UNCHANGED << mode, mode_asked, inverter_on, local_mode, pwm_enable,
                    boost_pwm_enable, is_net_synchronized, sync_counter,
                    desync_counter, power_counter, delta_duty_cycle,
                    duty_cycle_offset, duty_cycle_1, duty_cycle_2, Ilow1_value,
                    Ilow2_value, Vlow_value, Vac_value, Vdc_bus, Vdc_bus_filt,
                    Vgrid_meas, VN_meas, Vdq_ref, Idq_ref, is_downloading, trigger,
                    dumping, acq_run, loss_run, Iac_value, starts, wait_run, rl,
                    app_case, band >>

ClampRefNoUpper(v, lo, hi) == IF v < lo THEN lo ELSE v

\* 59-65 and 69-75: the reference clamped into its band.
ClampRef(v, lo, hi) ==
    LET v1 == IF v > hi THEN hi ELSE v
    IN  IF v1 < lo THEN lo ELSE v1

WriteBackRaw(raw, clamped) == raw

\* 67 and 77: the value stored back into the command mailbox.
WriteBack(raw, clamped) == clamped

\* 42-54: the requested mode after the switch on mode_request.
LatchMode(req) ==
    IF req = IDLEMODE THEN IDLEMODE
    ELSE IF req = POWERMODE THEN POWERMODE
    ELSE mode_asked

ConsumeFlagKept(f) == f

\* 83 and 87: a one-shot flag of the mailbox after app_apply_command.
ConsumeFlag(f) == FALSE

ScopeStartAlways(req, downloading) == req = POWERMODE

\* 46-49: scope.start() is called for a Power request unless a download is on.
ScopeStart(req, downloading) == req = POWERMODE /\ ~downloading

\* app_apply_command, run on the mailbox content c.
app_apply_command(c) ==
    LET vd == ClampRef(c.vd_ref, Vdq_ref_min.d, Vdq_ref_max.d)
        id == ClampRef(c.id_ref, Idq_ref_min.d, Idq_ref_max.d)
        forming == local_mode = FORMING
    IN  /\ mode_asked' = LatchMode(c.mode_request)
        /\ inverter_on' = c.inverter_on
        /\ Vdq_ref' = IF forming THEN [Vdq_ref EXCEPT !.d = vd] ELSE Vdq_ref
        /\ Idq_ref' = IF forming THEN Idq_ref ELSE [Idq_ref EXCEPT !.d = id]
        /\ user_cmd' = [c EXCEPT
                          !.vd_ref = IF forming THEN WriteBack(@, vd) ELSE @,
                          !.id_ref = IF forming THEN @ ELSE WriteBack(@, id),
                          !.scope_dump = ConsumeFlag(@),
                          !.scope_trigger = ConsumeFlag(@)]
        /\ is_downloading' = IF c.scope_dump THEN TRUE ELSE is_downloading
        /\ trigger' = IF c.scope_trigger THEN TRUE
                      ELSE IF c.scope_dump THEN FALSE ELSE trigger
        /\ hist' = [hist EXCEPT
                      !.tripped = @ /\ c.mode_request = user_cmd.mode_request,
                      !.unserved = @ \/ c.scope_dump]
        /\ last' = [NoLog EXCEPT
                      !.ctx = "gateway",
                      !.scopeStart = ScopeStart(c.mode_request, is_downloading),
                      !.down0 = is_downloading,
                      !.trig0 = trigger,
                      !.cmd0 = c,
                      !.written = IF forming THEN c.vd_ref ELSE c.id_ref]
        /\ UNCHANGED << mode, local_mode, pwm_enable, boost_pwm_enable,
                        is_net_synchronized, sync_counter, desync_counter,
                        power_counter, delta_duty_cycle, duty_cycle_offset,
                        duty_cycle_1, duty_cycle_2, Ilow1_value, Ilow2_value,
                        Vlow_value, Vac_value, Vdc_bus, Vdc_bus_filt, Vgrid_meas,
                        VN_meas, dumping, acq_run, loss_run, Iac_value, starts,
                        wait_run, rl, app_case, band >>

\* thingset_callbacks.cpp:7-12, run after a protocol write.
conf_command_cb ==
    /\ cb_pending
    /\ app_apply_command(user_cmd)
    /\ cb_pending' = FALSE

\* A protocol write of the batch w and its post-write callback, with no
\* other context running in between.
Command(w) ==
    /\ ~cb_pending
    /\ app_apply_command(w)
    /\ cb_pending' = FALSE

(***************************************************************************)
(* Initial state: the initialisers of main.cpp and user_data_objects.h and *)
(* setup_routine (main.cpp:222-300).  local_mode is initialised at         *)
(* main.cpp:127 and assigned nowhere; both sub-modes are modelled because  *)
(* both tasks and the gateway branch on it.                                *)
(***************************************************************************)
InitCommon ==
    /\ mode = IDLEMODE
    /\ mode_asked = IDLEMODE
    /\ inverter_on = FALSE
    /\ pwm_enable = FALSE
    /\ boost_pwm_enable = FALSE
    /\ is_net_synchronized = FALSE
    /\ sync_counter = 0
    /\ desync_counter = 0
    /\ power_counter = 0
    /\ delta_duty_cycle = 0
    /\ duty_cycle_offset = 0
    /\ duty_cycle_1 = 0
    /\ duty_cycle_2 = 0
    /\ Ilow1_value = 0
    /\ Ilow2_value = 0
    /\ Vlow_value = 0
    /\ Vac_value = 0
    /\ Vdc_bus = 0
    /\ Vdc_bus_filt = 0
    /\ Vgrid_meas = 0
    /\ VN_meas = 0
    /\ user_cmd = NoCmd
    /\ Vdq_ref = [d |-> 0, q |-> 0]
    /\ Idq_ref = [d |-> 0, q |-> 0]
    /\ is_downloading = FALSE
    /\ trigger = FALSE
    /\ cb_pending = FALSE
    /\ acq_run = 0
    /\ loss_run = 0
    /\ Iac_value = 0
    /\ dumping = FALSE
    /\ starts = 0
    /\ wait_run = 0
    /\ hist = NoHist
    /\ app_case = NoCase
    /\ last = NoLog

\* No caller of rate_limiter is being followed.
NoRun == [target |-> 0, rate |-> 0, v0 |-> 0, v |-> 0, n |-> 0]

\* No caller of the in-band tests is being followed.
NoBand == [om |-> 0, startup |-> FALSE, power |-> FALSE, n |-> 0]

Init == InitCommon /\ local_mode \in {FORMING, FOLLOWING} /\ rl = NoRun /\ band = NoBand

InitFollowing == InitCommon /\ local_mode = FOLLOWING /\ rl = NoRun /\ band = NoBand

(***************************************************************************)
(* Environment of the default specification: every handler runs as a       *)
(* whole, in any order.  The three debounce counters stay below MaxCount   *)
(* (the runs that reach their thresholds are SpecSync, SpecDesync and      *)
(* SpecPower below).                                                       *)
(***************************************************************************)
MaxCount == 2

NominalIn == [ilow1 |-> 1, vlow |-> 30, vac |-> 10, ilow2 |-> 1, vdc |-> 40,
              iac |-> 2, vfilt |-> 40, om |-> 10000, dd |-> 4000]

\* What one tick may see: nominal inputs, or one input off nominal:
\* Ilow1 at 8.25 A (8.0 A after the offset) or 8.5 A, Ilow2 at -8.5 A,
\* Vac = 24 V (Vgrid = 6 V).
TickInputs ==
    {NominalIn,
     [NominalIn EXCEPT !.ilow1 = 33],
     [NominalIn EXCEPT !.ilow1 = 34],
     [NominalIn EXCEPT !.ilow2 = -34],
     [NominalIn EXCEPT !.vac = 24]}

CountersBelow(n) ==
    /\ sync_counter' <= n
    /\ desync_counter' <= n
    /\ power_counter' <= n
    /\ duty_cycle_offset' <= n \/ duty_cycle_offset' >= HALF_DUTY

Tick ==
    \E in \in TickInputs :
        /\ loop_critical_task(in)
        /\ CountersBelow(MaxCount)

AppTick == loop_application_task

ModeRequests == {IDLEMODE, POWERMODE}

Cmd ==
    \E mr \in ModeRequests, on \in BOOLEAN :
        Command([user_cmd EXCEPT !.mode_request = mr, !.inverter_on = on])

Next == Tick \/ AppTick \/ Cmd

Spec == Init /\ [][Next]_vars

(***************************************************************************)
(* SpecPower: following sub-mode, the grid voltage below the start-up      *)
(* threshold (the mode state machine stays in Power), the frequency at     *)
(* nominal.  The energizing delay runs to its end; MaxRestarts bounds how  *)
(* far power_counter goes beyond it.                                       *)
(***************************************************************************)
MaxRestarts == 2

PowerIn == [NominalIn EXCEPT !.vac = 24]

TickPower ==
    \E in \in {PowerIn, [PowerIn EXCEPT !.ilow1 = 34]} :
        /\ loop_critical_task(in)
        /\ power_counter' <= POWER_TICKS + MaxRestarts

NextPower == TickPower \/ AppTick \/ Cmd

SpecPower == InitFollowing /\ [][NextPower]_vars

(***************************************************************************)
(* SpecSync: following sub-mode with the grid voltage above the start-up   *)
(* threshold, so that the state machine enters Startup; the frequency is   *)
(* in band or out of band at every tick and the lock-acquire counter runs  *)
(* to its threshold.  The other two counters stay below MaxCount.          *)
(***************************************************************************)
TickSync ==
    \E in \in {NominalIn, [NominalIn EXCEPT !.om = 10101]} :
        /\ loop_critical_task(in)
        /\ desync_counter' <= MaxCount
        /\ power_counter' <= MaxCount

CmdOn ==
    Command([user_cmd EXCEPT !.mode_request = POWERMODE, !.inverter_on = TRUE])

NextSync == TickSync \/ AppTick \/ CmdOn

SpecSync == InitFollowing /\ [][NextSync]_vars

(***************************************************************************)
(* SpecDesync: following sub-mode with the grid voltage below the start-up *)
(* threshold, so that the state machine stays in Power; the frequency is   *)
(* in band or out of band at every tick.  While the inverter legs wait for *)
(* their start, at most MaxCount in-band ticks are taken next to the       *)
(* out-of-band ones, up to the first trip.                                 *)
(***************************************************************************)
TickDesync ==
    \E in \in {PowerIn, [PowerIn EXCEPT !.om = 10101]} :
        /\ loop_critical_task(in)
        /\ last'.trip \/ power_counter' <= desync_counter' + MaxCount

NextDesync == TickDesync \/ AppTick \/ CmdOn

SpecDesync == InitFollowing /\ [][NextDesync]_vars

(***************************************************************************)
(* SpecCmd: both sub-modes; the protocol write and its callback are        *)
(* separate steps, so that ticks of both tasks run between them.  The      *)
(* written references lie below, inside and above both bands.              *)
(***************************************************************************)
RefWrites == {-2, 10, 90, 310}

WriteCmd ==
    \E v \in RefWrites :
        \/ ProtocolWrite([user_cmd EXCEPT !.mode_request = POWERMODE,
                                          !.inverter_on = TRUE, !.id_ref = v])
        \/ ProtocolWrite([user_cmd EXCEPT !.mode_request = POWERMODE,
                                          !.inverter_on = TRUE, !.vd_ref = v])

TickCmd == loop_critical_task(NominalIn) /\ CountersBelow(MaxCount)

NextCmd == WriteCmd \/ conf_command_cb \/ TickCmd \/ AppTick

SpecCmd == Init /\ [][NextCmd]_vars

(***************************************************************************)
(* SpecScope: following sub-mode; the protocol layer writes the mode       *)
(* request (any of the four mode values) or the two one-shot flags, the    *)
(* callback runs as a separate step, and the low-rate task is suspended    *)
(* while a download streams, so that the other contexts run meanwhile.     *)
(***************************************************************************)
ModeValues == {IDLEMODE, POWERMODE, ERRORMODE, STARTUPMODE}

WriteScope ==
    \/ \E mr \in ModeValues :
          ProtocolWrite([user_cmd EXCEPT !.mode_request = mr, !.inverter_on = TRUE])
    \/ \E sd \in BOOLEAN, st \in BOOLEAN :
          ProtocolWrite([user_cmd EXCEPT !.scope_dump = sd, !.scope_trigger = st])

NextScope ==
    \/ WriteScope
    \/ conf_command_cb
    \/ TickCmd
    \/ loop_application_task_until_dump
    \/ dump_scope_datas_returns

SpecScope == InitFollowing /\ [][NextScope]_vars

(***************************************************************************)
(* SpecE2E: the end-to-end run in the following sub-mode.  Power is        *)
(* requested with the inverter enabled before the regulation begins; the   *)
(* frequency is in band until the inverter legs run and in or out of band  *)
(* afterwards, up to the trip.  The grid voltage is above the start-up     *)
(* threshold outside Power and below it in Power, and the low-rate task    *)
(* leaves Startup within MaxCount ticks of the synchronization.            *)
(***************************************************************************)
E2EInputs ==
    IF mode # POWERMODE THEN {NominalIn}
    ELSE IF ~pwm_enable THEN {PowerIn}
    ELSE {PowerIn, [PowerIn EXCEPT !.om = 10101]}

TickE2E ==
    \E in \in E2EInputs :
        /\ loop_critical_task(in)
        /\ mode = STARTUPMODE /\ is_net_synchronized => sync_counter' <= MaxCount

CmdE2E ==
    /\ mode_asked = IDLEMODE
    /\ power_counter = 0
    /\ CmdOn

NextE2E == TickE2E \/ AppTick \/ CmdE2E

SpecE2E == InitFollowing /\ [][NextE2E]_vars

(***************************************************************************)
(* SpecHold: following sub-mode; at every tick the sensors bring nominal   *)
(* samples, samples under load (Ilow1 = 5.25 A, Ilow2 = 2.75 A), an        *)
(* overcurrent on Ilow1, or no fresh sample: on every channel, on the two  *)
(* current channels, or on one channel.                                    *)
(***************************************************************************)
LoadedIn == [NominalIn EXCEPT !.ilow1 = 21, !.ilow2 = 11]

NoSampleIn == [NominalIn EXCEPT !.ilow1 = NO_VALUE, !.vlow = NO_VALUE,
                                !.vac = NO_VALUE, !.ilow2 = NO_VALUE,
                                !.vdc = NO_VALUE, !.iac = NO_VALUE]

HoldInputs ==
    {NominalIn, LoadedIn, NoSampleIn,
     [NominalIn EXCEPT !.ilow1 = 34],
     [NominalIn EXCEPT !.ilow1 = NO_VALUE, !.ilow2 = NO_VALUE],
     [LoadedIn EXCEPT !.vac = NO_VALUE],
     [LoadedIn EXCEPT !.iac = NO_VALUE]}

TickHold ==
    \E in \in HoldInputs :
        /\ loop_critical_task(in)
        /\ CountersBelow(MaxCount)

NextHold == TickHold \/ AppTick \/ Cmd

SpecHold == InitFollowing /\ [][NextHold]_vars

(***************************************************************************)
(* SpecRate: rate_limiter on its own.  A caller holds a target, a step     *)
(* (rate * Ts, in units of 1e-4) and a start value, and feeds the result   *)
(* of each call into the next one, up to MaxCalls calls.                   *)
(***************************************************************************)
MaxCalls == 64

RateTargets == {0, 25, 40}
RateStarts == {0, 2, 25, 60}
RateSteps == {1, 5, 15}

InitRate ==
    /\ InitCommon
    /\ local_mode = FOLLOWING
    /\ rl \in [target : RateTargets, rate : RateSteps, v0 : RateStarts,
               v : RateStarts, n : {0}]
    /\ rl.v = rl.v0
    /\ band = NoBand

RateStep ==
    /\ rl.n < MaxCalls
    /\ rl' = [rl EXCEPT !.v = rate_limiter(rl.target, rl.v, rl.rate), !.n = @ + 1]
    /\ last' = [NoLog EXCEPT !.ctx = "rate"]
    /\ UNCHANGED << mode, mode_asked, inverter_on, local_mode, pwm_enable,
                    boost_pwm_enable, is_net_synchronized, sync_counter,
                    desync_counter, power_counter, delta_duty_cycle,
                    duty_cycle_offset, duty_cycle_1, duty_cycle_2, Ilow1_value,
                    Ilow2_value, Vlow_value, Vac_value, Vdc_bus, Vdc_bus_filt,
                    Vgrid_meas, VN_meas, user_cmd, Vdq_ref, Idq_ref,
                    is_downloading, trigger, cb_pending, acq_run, loss_run,
                    Iac_value, dumping, starts, wait_run, hist, app_case, band >>

SpecRate == InitRate /\ [][RateStep]_vars

(***************************************************************************)
(* SpecRetry: the run of SpecDesync up to the desynchronization trip, with *)
(* Power requested once before the regulation begins; after the trip the   *)
(* protocol writes id_ref and inverter_on only and leaves mode_request as  *)
(* it stands in the mailbox.                                               *)
(***************************************************************************)
RetryRefs == {10, 20}

CmdOther ==
    /\ hist.tripped
    /\ \E v \in RetryRefs, on \in BOOLEAN :
           Command([user_cmd EXCEPT !.id_ref = v, !.inverter_on = on])

NextRetry == TickDesync \/ AppTick \/ CmdE2E \/ CmdOther

SpecRetry == InitFollowing /\ [][NextRetry]_vars

(***************************************************************************)
(* SpecRamp: the offset ramp of the Power regulation.  Following sub-mode, *)
(* Power requested once with the inverter enabled, frequency in band and   *)
(* grid voltage below the start-up threshold, so that the regulation never *)
(* stops once it runs; VN_meas / Vdc_bus_filt, the seed of the offset, is  *)
(* 0.675, 0.5 or 0.475 at each tick.  Both tasks are periodic (main.cpp:   *)
(* 294-299, 379), hence the fairness conditions.                           *)
(***************************************************************************)
RampInputs ==
    {PowerIn,
     [PowerIn EXCEPT !.vlow = 22, !.vac = 18],
     [PowerIn EXCEPT !.vlow = 20, !.vac = 18]}

TickRamp == \E in \in RampInputs : loop_critical_task(in)

NextRamp == TickRamp \/ AppTick \/ CmdE2E

SpecRamp ==
    InitFollowing /\ [][NextRamp]_vars /\ WF_vars(TickRamp) /\ WF_vars(AppTick)

(***************************************************************************)
(* SpecPreempt: the following sub-mode with the control task preempting    *)
(* the low-rate task between the read of mode by its switch and the        *)
(* statements of the selected case.  Ticks see nominal inputs or an        *)
(* overcurrent; the counters stay below MaxCount as in Spec.               *)
(***************************************************************************)
TickPreempt ==
    \E in \in {NominalIn, [NominalIn EXCEPT !.ilow1 = 34]} :
        /\ loop_critical_task(in)
        /\ CountersBelow(MaxCount)

NextPreempt ==
    \/ TickPreempt
    \/ loop_application_task_switch
    \/ loop_application_task_case
    \/ Cmd

SpecPreempt == InitFollowing /\ [][NextPreempt]_vars

(***************************************************************************)
(* SpecBand: the two in-band tests on their own.  A caller holds an omega  *)
(* within MaxDev of w0 (w0 = 10000, tolerance 100: the band edges are      *)
(* 9900 and 10100) and applies the test of the lock acquisition and the    *)
(* test of the Power regulation to it.                                     *)
(***************************************************************************)
MaxDev == 150

Omegas == (W0 - MaxDev)..(W0 + MaxDev)

InitBand ==
    /\ InitCommon
    /\ local_mode = FOLLOWING
    /\ rl = NoRun
    /\ band \in [om : Omegas, startup : {FALSE}, power : {FALSE}, n : {0}]

BandStep ==
    /\ band.n = 0
    /\ band' = [band EXCEPT !.startup = InBandStartup(band.om),
                            !.power = InBandPower(band.om),
                            !.n = 1]
    /\ last' = [NoLog EXCEPT !.ctx = "band"]
    /\ UNCHANGED << mode, mode_asked, inverter_on, local_mode, pwm_enable,
                    boost_pwm_enable, is_net_synchronized, sync_counter,
                    desync_counter, power_counter, delta_duty_cycle,
                    duty_cycle_offset, duty_cycle_1, duty_cycle_2, Ilow1_value,
                    Ilow2_value, Vlow_value, Vac_value, Vdc_bus, Vdc_bus_filt,
                    Vgrid_meas, VN_meas, user_cmd, Vdq_ref, Idq_ref,
                    is_downloading, trigger, cb_pending, acq_run, loss_run,
                    Iac_value, dumping, starts, wait_run, rl, hist, app_case >>

SpecBand == InitBand /\ [][BandStep]_vars

(***************************************************************************)
(* SpecTrip: the energizing delay and the loss of synchronization running  *)
(* together.  Following sub-mode, Power requested once with the inverter   *)
(* enabled and the grid voltage below the start-up threshold; the          *)
(* frequency is in band for the first POWER_TICKS - DESYNC_TICKS ticks of  *)
(* the delay and out of band afterwards.                                   *)
(***************************************************************************)
TripInputs ==
    IF power_counter < POWER_TICKS - DESYNC_TICKS THEN {PowerIn}
    ELSE {[PowerIn EXCEPT !.om = 10101]}

TickTrip == \E in \in TripInputs : loop_critical_task(in)

NextTrip == TickTrip \/ AppTick \/ CmdE2E

SpecTrip == InitFollowing /\ [][NextTrip]_vars

(***************************************************************************)
(* SpecNominal: the following sub-mode under nominal conditions for ever:  *)
(* Power requested once with the inverter enabled, and at every tick the   *)
(* frequency in band, Vgrid = 20 V, Vdc_bus_filt = 40 V and no             *)
(* overcurrent.  The control task runs in every state; the low-rate task   *)
(* does not run between the first entry into Power and the start of the    *)
(* inverter legs (the energizing delay) and runs freely before and after.  *)
(* Both tasks are periodic (main.cpp:294-299, 379), hence the fairness     *)
(* conditions.                                                             *)
(***************************************************************************)
TickNominal == loop_critical_task(NominalIn)

AppNominal ==
    /\ ~(mode = POWERMODE /\ ~pwm_enable)
    /\ loop_application_task

NextNominal == TickNominal \/ AppNominal \/ CmdE2E

SpecNominal ==
    InitFollowing /\ [][NextNominal]_vars /\ WF_vars(TickNominal) /\ WF_vars(AppNominal)

(***************************************************************************)
(* Properties                                                              *)
(***************************************************************************)
ExceedsLimit(i) == i > MAX_CURRENT \/ i < -MAX_CURRENT

TickDone == last.ctx = "tick"
AppDone == last.ctx = "app"
GatewayDone == last.ctx = "gateway"

\* C1: a control-loop tick whose sampled Ilow1 or Ilow2 is above +8.0 A or
\* below -8.0 A ends, whatever the mode at its start, with mode = Error and
\* both the inverter legs and the boost legs stopped, and has issued no
\* start() and no setDutyCycle() call.
C1_OvercurrentShutsDown ==
    (TickDone /\ (ExceedsLimit(Ilow1_value) \/ ExceedsLimit(Ilow2_value)))
        => /\ mode = ERRORMODE
           /\ ~pwm_enable
           /\ ~boost_pwm_enable
           /\ ~last.calls.startLow
           /\ ~last.calls.startAll
           /\ ~last.calls.dutyLow
           /\ ~last.calls.dutyHigh

\* An overcurrent on Ilow2 alone hit a tick that began in Power mode with
\* the inverter legs and the boost legs running.
C1_Witness ==
    /\ TickDone
    /\ ExceedsLimit(Ilow2_value)
    /\ ~ExceedsLimit(Ilow1_value)
    /\ last.run0
    /\ last.mode0 = POWERMODE
    /\ mode = ERRORMODE

OverNow == ExceedsLimit(Ilow1_value) \/ ExceedsLimit(Ilow2_value)

C3_ErrorHasNoExit ==
    (AppDone /\ last.mode0 = ERRORMODE) => mode = ERRORMODE

\* C3 as amended: a low-rate tick that begins with mode = Error ends with
\* mode = Error when the requested mode is Power, and with mode = Idle when
\* the requested mode is Idle (the global return to idle).
C3_ErrorLeftOnlyByIdleRequest ==
    (AppDone /\ last.mode0 = ERRORMODE)
        => mode = (IF last.asked0 = IDLEMODE THEN IDLEMODE ELSE ERRORMODE)

\* A low-rate tick began in Error with Power requested and left Error in place.
C3_Witness ==
    /\ AppDone
    /\ last.mode0 = ERRORMODE
    /\ last.asked0 = POWERMODE
    /\ mode = ERRORMODE

\* C4: a low-rate tick in which the requested mode is Idle ends its state
\* machine evaluation with mode = Idle, whatever the mode at its start and
\* whatever the per-state branch selected.
C4_GlobalReturnToIdle ==
    (AppDone /\ last.asked0 = IDLEMODE) => mode = IDLEMODE

\* The tick began in Power with the inverter enabled and the start-up
\* conditions true, so the Power branch selected Startup before the override.
C4_Witness ==
    /\ AppDone
    /\ last.asked0 = IDLEMODE
    /\ last.mode0 = POWERMODE
    /\ inverter_on
    /\ Vdc_bus_filt >= UDC_STARTUP
    /\ Vgrid_meas >= VGRID_STARTUP
    /\ mode = IDLEMODE

\* C5: in Startup, following sub-mode, inverter enabled, starting from
\* sync_counter = 0 with is_net_synchronized false, the 2000th in-band tick
\* in a row ends with is_net_synchronized true; is_net_synchronized is not
\* set after fewer than 2000; an out-of-band tick leaves sync_counter at 0.
C5_SyncAtTick2000 ==
    TickDone /\ last.reg = "acquire" =>
        /\ (acq_run = 2000 /\ ~last.sync0 => is_net_synchronized)
        /\ (is_net_synchronized /\ ~last.sync0 => acq_run >= 2000)
        /\ (~last.inband => sync_counter = 0)

\* C6: in Power with the inverter enabled, starting from desync_counter = 0,
\* the tick that completes 200 out-of-band ticks in a row ends with mode and
\* mode_asked both Idle; no trip happens with fewer than 200 in a row.
C6_TripAtTick200 ==
    TickDone /\ last.reg = "power" =>
        /\ (loss_run = 200 => mode = IDLEMODE /\ mode_asked = IDLEMODE)
        /\ (last.trip => loss_run >= 200)

\* C7: after any Power tick whose frequency is in band, desync_counter is 0.
C7_InBandTickClearsDesyncCounter ==
    TickDone /\ last.reg = "power" /\ last.inband => desync_counter = 0

\* C8: in every reachable state duty_cycle_1 and duty_cycle_2 lie in [0,1].
C8_DutyInUnitInterval ==
    /\ duty_cycle_1 >= 0 /\ duty_cycle_1 <= DUTY_UNIT
    /\ duty_cycle_2 >= 0 /\ duty_cycle_2 <= DUTY_UNIT

Clamped(v, lo, hi) == IF v < lo THEN lo ELSE IF v > hi THEN hi ELSE v

\* C9: after every run of app_apply_command the active axis reference
\* (Idq_ref.d in following, Vdq_ref.d in forming) is the written value
\* clamped into [min.d, max.d], and the mailbox field (user_cmd.id_ref resp.
\* user_cmd.vd_ref) holds that same clamped value.
C9_ClampWithReadBack ==
    GatewayDone =>
        IF local_mode = FORMING
        THEN /\ Vdq_ref.d = Clamped(last.written, Vdq_ref_min.d, Vdq_ref_max.d)
             /\ user_cmd.vd_ref = Vdq_ref.d
        ELSE /\ Idq_ref.d = Clamped(last.written, Idq_ref_min.d, Idq_ref_max.d)
             /\ user_cmd.id_ref = Idq_ref.d

\* app_apply_command has just run in the following sub-mode on a written
\* id_ref above Idq_ref_max.d, and the mailbox reads back the bound.
C9_Witness ==
    /\ GatewayDone
    /\ local_mode = FOLLOWING
    /\ last.written > Idq_ref_max.d
    /\ user_cmd.id_ref = Idq_ref_max.d
    /\ Idq_ref.d = Idq_ref_max.d

InBounds(r, lo, hi) ==
    /\ r.d >= lo.d /\ r.d <= hi.d
    /\ r.q >= lo.q /\ r.q <= hi.q

\* C10: in every reachable state Vdq_ref and Idq_ref lie within their
\* [min, max] bounds on both axes, and so does the reference a Power tick
\* hands to the control law, whatever the mailbox holds at that moment.
C10_ReferencesInBounds ==
    /\ InBounds(Vdq_ref, Vdq_ref_min, Vdq_ref_max)
    /\ InBounds(Idq_ref, Idq_ref_min, Idq_ref_max)
    /\ (TickDone /\ last.reg = "power" =>
           IF local_mode = FORMING
           THEN InBounds(last.handed, Vdq_ref_min, Vdq_ref_max)
           ELSE InBounds(last.handed, Idq_ref_min, Idq_ref_max))

\* A Power tick has handed the reference to the control law while a written
\* id_ref above the band waits in the mailbox for its callback, after an
\* earlier write had already been clamped to the upper bound.
C10_Witness ==
    /\ TickDone
    /\ last.reg = "power"
    /\ local_mode = FOLLOWING
    /\ cb_pending
    /\ user_cmd.id_ref > Idq_ref_max.d
    /\ last.handed.d = Idq_ref_max.d

\* C11: after every run of app_apply_command both one-shot flags of the
\* mailbox are false; a set scope_dump has latched is_downloading and cleared
\* trigger, a set scope_trigger has set trigger; a run that finds neither
\* flag set (no fresh write of the flags) changes neither is_downloading nor
\* trigger.
C11_OneShotFlagsConsumed ==
    GatewayDone =>
        /\ ~user_cmd.scope_dump
        /\ ~user_cmd.scope_trigger
        /\ (last.cmd0.scope_dump =>
               is_downloading /\ (~last.cmd0.scope_trigger => ~trigger))
        /\ (last.cmd0.scope_trigger => trigger)
        /\ (~last.cmd0.scope_dump /\ ~last.cmd0.scope_trigger =>
               is_downloading = last.down0 /\ trigger = last.trig0)

\* app_apply_command has run again after both flags had been consumed: it
\* found them false, with a download latched and the trigger set.
C11_Witness ==
    /\ GatewayDone
    /\ ~last.cmd0.scope_dump
    /\ ~last.cmd0.scope_trigger
    /\ last.down0
    /\ last.trig0
    /\ is_downloading
    /\ trigger

\* C12: scope.start() is never called while is_downloading is true, and
\* is_downloading is true for as long as dump_scope_datas streams, whatever
\* runs in between.
C12_NoRearmMidStream ==
    /\ (dumping => is_downloading)
    /\ (GatewayDone /\ last.scopeStart => ~last.down0 /\ ~dumping)

\* app_apply_command has run with a Power request while the download was
\* streaming, and has not called scope.start().
C12_Witness ==
    /\ GatewayDone
    /\ dumping
    /\ last.cmd0.mode_request = POWERMODE
    /\ ~last.scopeStart

\* C14: after every run of app_apply_command mode_asked equals
\* user_cmd.mode_request, for every value of mode_request.
C14_ModeLatchedVerbatim ==
    GatewayDone => mode_asked = user_cmd.mode_request

\* C13: neither the control loop nor the low-rate task ever assigns
\* mode_asked or inverter_on: both are the same after a tick of either task
\* as before it.
C13_GatewayIsOnlyWriter ==
    TickDone \/ AppDone =>
        /\ mode_asked = last.asked0
        /\ inverter_on = last.on0

\* C13, amended: the low-rate task assigns neither; the control loop never
\* assigns inverter_on, and assigns mode_asked only in the tick of a
\* desynchronization trip, to Idle.
C13_SingleWriterButForTrip ==
    /\ (AppDone => mode_asked = last.asked0 /\ inverter_on = last.on0)
    /\ (TickDone =>
           /\ inverter_on = last.on0
           /\ (mode_asked # last.asked0 => last.trip /\ mode_asked = IDLEMODE))

\* The control loop has tripped with Power requested and has withdrawn the
\* request.
C13_Witness ==
    /\ TickDone
    /\ last.trip
    /\ last.asked0 = POWERMODE
    /\ mode_asked = IDLEMODE

\* C15: a low-rate tick that starts in Idle, Startup or Power with a requested
\* mode other than Idle ends in the mode the transition table gives:
\* Idle -> Power iff Power is requested; Startup -> Power iff the inverter is
\* disabled, or forming with delta_duty_cycle >= 0.49, or following and
\* synchronized; Power -> Startup iff the inverter is enabled, the filtered
\* bus voltage is at least the start-up threshold and (forming, or following
\* with a grid voltage of at least 10).
C15_TransitionTable ==
    AppDone /\ last.asked0 # IDLEMODE =>
        /\ (last.mode0 = IDLEMODE =>
               mode = IF last.asked0 = POWERMODE THEN POWERMODE ELSE IDLEMODE)
        /\ (last.mode0 = STARTUPMODE =>
               mode = IF \/ ~inverter_on
                         \/ (local_mode = FORMING /\ delta_duty_cycle >= FORMING_DONE)
                         \/ (local_mode = FOLLOWING /\ is_net_synchronized)
                      THEN POWERMODE ELSE STARTUPMODE)
        /\ (last.mode0 = POWERMODE =>
               mode = IF /\ inverter_on
                         /\ Vdc_bus_filt >= UDC_STARTUP
                         /\ \/ local_mode = FORMING
                            \/ (local_mode = FOLLOWING /\ Vgrid_meas >= VGRID_STARTUP)
                      THEN STARTUPMODE ELSE POWERMODE)

\* C16: a start of the inverter legs is issued only in a tick that began
\* with them stopped, so that no second start comes before a stop; in the
\* end-to-end run the legs have been started once and not stopped when the
\* desynchronization trip comes, and no stop is issued while Power is
\* requested.
C16_InverterLegsStartedOnce ==
    /\ starts <= 1
    /\ (TickDone /\ last.calls.startAll => ~last.pwm0)
    /\ (TickDone /\ last.trip => starts = 1 /\ last.pwm0)
    /\ (TickDone /\ (last.calls.stopAll \/ last.calls.stopHigh) =>
           last.asked0 = IDLEMODE)

\* The run has gone through Startup, the legs were started in Power after
\* the energizing delay, and the trip has come with the legs running.
C16_Witness ==
    /\ TickDone
    /\ last.trip
    /\ starts = 1
    /\ acq_run > SYNC_TICKS
    /\ power_counter > POWER_TICKS

\* C17: in the following sub-mode, whenever start() is issued for the
\* inverter legs in Power regulation, at least 2000 Power-regulation ticks
\* with the legs stopped have gone by since the legs last ran (the start
\* tick is the 2001st or later).
C17_EnergizingDelayOnEveryEntry ==
    TickDone /\ last.reg = "power" /\ last.calls.startAll =>
        last.waited > 2000

\* C18: after a tick in which the sensor returned NO_VALUE for a channel,
\* the stored value of that channel (Ilow1, Ilow2, Vlow, Vac, Vdc_bus, Iac)
\* is the one it had before the tick; and a tick that brought no fresh
\* sample on either current channel, with both stored currents inside the
\* limit, does not enter Error.
C18_NoValueHoldsChannel ==
    TickDone =>
        /\ (last.meas.ilow1 = NO_VALUE => Ilow1_value = last.prev.ilow1)
        /\ (last.meas.ilow2 = NO_VALUE => Ilow2_value = last.prev.ilow2)
        /\ (last.meas.vlow = NO_VALUE => Vlow_value = last.prev.vlow)
        /\ (last.meas.vac = NO_VALUE => Vac_value = last.prev.vac)
        /\ (last.meas.vdc = NO_VALUE => Vdc_bus = last.prev.vdc)
        /\ (last.meas.iac = NO_VALUE => Iac_value = last.prev.iac)
        /\ (/\ last.meas.ilow1 = NO_VALUE
            /\ last.meas.ilow2 = NO_VALUE
            /\ ~ExceedsLimit(last.prev.ilow1)
            /\ ~ExceedsLimit(last.prev.ilow2)
            /\ last.mode0 # ERRORMODE
            => mode # ERRORMODE)

\* A tick in Power has brought no fresh sample on any channel and the
\* currents sampled under load are still stored, offset-corrected once.
C18_Witness ==
    /\ TickDone
    /\ last.meas = [ilow1 |-> NO_VALUE, vlow |-> NO_VALUE, vac |-> NO_VALUE,
                    ilow2 |-> NO_VALUE, vdc |-> NO_VALUE, iac |-> NO_VALUE]
    /\ Ilow1_value = 20
    /\ Ilow2_value = 10
    /\ Vlow_value = 30
    /\ Iac_value = 2
    /\ mode = POWERMODE

Abs(x) == IF x < 0 THEN -x ELSE x

Ceil(a, b) == (a + b - 1) \div b

\* C19: iterating v := rate_limiter(target, v, rate) from v0, the value is
\* target after ceil(|target - v0| / (rate * Ts)) calls and after every
\* later call, and after no call does it lie beyond target by more than one
\* step rate * Ts.
C19_RateLimiterConverges ==
    last.ctx = "rate" =>
        /\ (rl.n >= Ceil(Abs(rl.target - rl.v0), rl.rate) => rl.v = rl.target)
        /\ (rl.v0 <= rl.target => rl.v - rl.target <= rl.rate)
        /\ (rl.v0 >= rl.target => rl.target - rl.v <= rl.rate)

\* C20: from the end of one control-loop tick to the end of the next,
\* delta_duty_cycle changes by at most 50 * Ts and duty_cycle_offset by at
\* most 1.0 * Ts.
C20_RampStateSlewBounded ==
    TickDone =>
        /\ Abs(delta_duty_cycle - last.delta0) <= RAMP_DELTA
        /\ Abs(duty_cycle_offset - last.offset0) <= RAMP_OFFSET

\* C21: in following sub-mode with the inverter enabled, a low-rate tick
\* takes Startup -> Power only on a synchronized flag that the lock-acquire
\* debounce set (2000 in-band ticks in a row counted in Startup), never on
\* one that a Power-mode evaluation left behind.
C21_PowerEntryBehindDebounce ==
    (/\ AppDone
     /\ local_mode = FOLLOWING
     /\ last.on0
     /\ last.mode0 = STARTUPMODE
     /\ mode = POWERMODE)
        => hist.sync_src = "acquire"

\* C22: after a desynchronization trip, mode and the requested mode stay
\* Idle as long as no protocol write has changed mode_request, whatever
\* other fields (id_ref, inverter_on) are written and however often the
\* gateway and the low-rate task run.
C22_DownUntilPowerRequested ==
    hist.tripped => (mode = IDLEMODE /\ mode_asked = IDLEMODE)

\* The Power regulation runs with the inverter legs started.
RegulatingWithLegs == mode = POWERMODE /\ inverter_on /\ pwm_enable

\* C23: while the Power regulation runs with the inverter legs started,
\* duty_cycle_offset never exceeds 0.5; and if the regulation keeps running
\* with the legs started, duty_cycle_offset eventually equals 0.5 and stays
\* there, whatever the seed VN_meas / Vdc_bus_filt was.
C23_OffsetRampReachesHalf ==
    /\ [](RegulatingWithLegs => duty_cycle_offset <= HALF_DUTY)
    /\ (<>[]RegulatingWithLegs => <>[](duty_cycle_offset = HALF_DUTY))

\* C24: with the control task preempting the low-rate task between any two
\* of its statements, the low-rate task never changes a mode that a tick has
\* just forced to Error into Startup or Power.
C24_ErrorSurvivesPreemption ==
    (AppDone /\ last.mode0 = ERRORMODE) => (mode # STARTUPMODE /\ mode # POWERMODE)

\* C25: a control-loop tick that runs with inverter_on false ends with
\* pwm_enable false and has issued no start() of the inverter legs; and a
\* tick issues stop(LEG1_HIGH), stop(LEG2_HIGH) only when it began with
\* pwm_enable true.
C25_InverterEnableGating ==
    TickDone =>
        /\ ~inverter_on => (~pwm_enable /\ ~last.calls.startAll)
        /\ last.calls.stopHigh => last.pwm0

\* A tick found the inverter disabled in Startup or Power with the legs
\* running, and stopped them through stop(LEG1_HIGH), stop(LEG2_HIGH).
C25_Witness ==
    /\ TickDone
    /\ ~inverter_on
    /\ last.mode0 \in {STARTUPMODE, POWERMODE}
    /\ last.pwm0
    /\ last.calls.stopHigh
    /\ ~pwm_enable

\* C26: the in-band test of the lock acquisition in Startup and the in-band
\* test of the Power regulation give the same answer for every omega, the
\* band edges w0 - 1 % and w0 + 1 % included.
C26_OneInBandPredicate ==
    band.n > 0 => band.startup = band.power

\* C27: a control-loop tick that forces mode to Idle through the
\* desynchronization trip issues no start() of the inverter legs, and ends
\* with pwm_enable true only if it began with pwm_enable true.
C27_NoStartInTrippingTick ==
    (TickDone /\ last.trip)
        => (~last.calls.startAll /\ (pwm_enable => last.pwm0))

\* C28: no capture-download request is lost: a request that the gateway has
\* latched and that no stream has begun after is still latched in
\* is_downloading, also when it came in while an earlier stream was running
\* or between the end of that stream and the clearing of the flag.
C28_NoDownloadRequestLost ==
    hist.unserved => is_downloading

\* C29: in following sub-mode, once Power is requested with the inverter
\* enabled and stays so, under nominal conditions (grid voltage and filtered
\* bus voltage above their thresholds, frequency in band, no overcurrent)
\* there is a point after which every low-rate tick leaves mode = Power.
C29_PowerIsStable ==
    <>[](mode_asked = POWERMODE /\ inverter_on)
        => <>[](AppDone => mode = POWERMODE)

====
